---- MODULE Spec2Model ----
(***************************************************************************)
(* State-machine model of the dismob `tickets` cog (src/main.py).          *)
(*                                                                         *)
(* The four SQLite tables are sets of rows.  Every command or component    *)
(* callback is a handler running in a slot of `hs`; a handler advances one *)
(* suspension point (one awaited storage or platform call) per step, so    *)
(* the steps of different handlers interleave as asyncio interleaves them. *)
(* A write transaction (first write statement up to commit) is one step:   *)
(* SQLite serialises writers and shows other connections its effects only *)
(* at commit.                                                              *)
(***************************************************************************)
EXTENDS Integers, Sequences, FiniteSets, TLC

\* ---------------------------------------------------------------- bounds
MaxPanelId == 1       \* AUTOINCREMENT ids handed out for ticket_panels
MaxButtonId == 3      \* AUTOINCREMENT ids handed out for ticket_buttons
MaxChannelId == 1     \* ticket channels the platform creates
MaxClock == 3         \* readings of datetime.now()
MaxMessageId == 2     \* panel messages the platform creates

\* ------------------------------------------------------- value universes
NULL == "NULL"                      \* SQL NULL / Python None in a text column
NoId == 0                           \* SQL NULL / Python None in an id column
Handlers == {1, 2}                  \* slots for handlers in flight at once
Positions == 1..3                   \* app_commands.Range[int, 1, 3]

\* the guild, two of its channels and two of its roles
Guild == 1
Guild2 == 2                         \* another guild the bot serves from the same database
Cat1 == 21                          \* a category channel of the guild
Log1 == 31                          \* a text channel of the guild, used as log channel
Role1 == 11
Role2 == 12
TextA == 41                         \* two text channels of the guild
TextB == 42

VARIABLES
    panels,        \* rows of ticket_panels
    buttons,       \* rows of ticket_buttons
    bindings,      \* rows of ticket_button_roles
    tickets,       \* rows of tickets
    nextPanelId,   \* sqlite_sequence of ticket_panels
    nextButtonId,  \* sqlite_sequence of ticket_buttons
    chans,         \* platform: the ticket channels ever created
    transcripts,   \* platform: transcript files delivered to log channels
    gone,          \* platform: guild channels and roles that were deleted
    nextChannelId, \* platform: the next channel snowflake
    clock,         \* the next reading of datetime.now()
    msgs,          \* platform: the panel messages ever posted
    nextMessageId, \* platform: the next message snowflake
    hs             \* handler slots: position and locals of each handler

db == <<panels, buttons, bindings, tickets, nextPanelId, nextButtonId>>
posted == <<msgs, nextMessageId>>
world == <<chans, transcripts, gone, nextChannelId, clock, msgs, nextMessageId>>
vars == <<panels, buttons, bindings, tickets, nextPanelId, nextButtonId,
          chans, transcripts, gone, nextChannelId, clock, msgs, nextMessageId, hs>>

\* ---------------------------------------------------------- handler slots
\* What a frame holds: the arguments bound at the invocation (guild, user, name,
\* pos, pa, ba, roles, chan, ctl), the locals the code assigns on the way
\* (pid, vals, bid, sroles, catid, logid, here), where it stands (pc), its reply
\* (res, out), and a history field (before).
NoPanelArgs == [category |-> NoId, log_channel |-> NoId, panel_title |-> NULL,
                panel_description |-> NULL]
NoButtonArgs == [button_label |-> NULL, ticket_title |-> NULL, ticket_message |-> NULL,
                 button_emoji |-> NULL, button_style |-> NULL, ticket_color |-> NULL]
NoRolesArg == [given |-> FALSE, tokens |-> <<>>]      \* support_roles is None
NoVals == [title |-> NULL, desc |-> NULL, cat |-> NoId, log |-> NoId]
NoUser == [id |-> NoId, admin |-> FALSE, roles |-> {}]
NoCtl == [button_id |-> NoId, position |-> 0, panel_id |-> NoId]
Me == 100                           \* interaction.guild.me, the bot's own member id
NoOut == [kind |-> "none"]
\* history, for stating properties only: what the handler's write found in place
NoBefore == [existed |-> FALSE, bound |-> FALSE]
\* ticket_here: the channel argument as given, the local `channel`, the channel
\* of the interaction, the stored reference read, the view built, the message sent
NoHere == [given |-> NoId, channel |-> NoId, invoked |-> NoId,
           old_channel_id |-> NoId, old_message_id |-> NoId, view |-> <<>>,
           message |-> NoId]

Idle ==
    [pc |-> "idle", op |-> "none", res |-> "none", out |-> NoOut,
     guild |-> NoId, user |-> NoUser, name |-> NULL, pos |-> 0,
     pa |-> NoPanelArgs, ba |-> NoButtonArgs, roles |-> NoRolesArg,
     chan |-> NoId, ctl |-> NoCtl,
     pid |-> NoId, vals |-> NoVals, bid |-> NoId, sroles |-> {}, catid |-> NoId,
     logid |-> NoId, here |-> NoHere, before |-> NoBefore]

\* A new invocation takes the lowest slot in which no handler is running.
Vacant(h) == hs[h].pc \in {"idle", "done"}
Free(h) == Vacant(h) /\ \A k \in Handlers : k < h => ~Vacant(k)

\* A handler that returned or raised: its locals are gone; what it was asked
\* (the optional arguments, the actor, the channel, the control) and what it
\* replied stay
\* visible until the slot runs another handler.
Finished(f, res, out) ==
    [Idle EXCEPT !.pc = "done", !.op = f.op, !.res = res, !.out = out,
                 !.pa = f.pa, !.ba = f.ba, !.roles = f.roles,
                 !.user = f.user, !.chan = f.chan, !.ctl = f.ctl,
                 !.before = f.before]

\* ------------------------------------------------------------------ Init
Init ==
    /\ panels = {}
    /\ buttons = {}
    /\ bindings = {}
    /\ tickets = {}
    /\ nextPanelId = 1
    /\ nextButtonId = 1
    /\ chans = {}
    /\ transcripts = {}
    /\ gone = {}
    /\ nextChannelId = 1
    /\ clock = 1
    /\ msgs = {}
    /\ nextMessageId = 1
    /\ hs = [h \in Handlers |-> Idle]

\* --------------------------------------------------------- storage reads
\* SELECT ... FROM ticket_panels WHERE guild_id = ? AND panel_name = ?
PanelRowsOfAnyGuild(g, n) == {p \in panels : p.panel_name = n}
PanelRows(g, n) == {p \in panels : p.guild_id = g /\ p.panel_name = n}

\* SELECT ... FROM ticket_buttons WHERE panel_id = ? AND button_position = ?
ButtonRows(pid, pos) == {b \in buttons : b.panel_id = pid /\ b.button_position = pos}

\* SELECT role_id FROM ticket_button_roles WHERE button_id = ?
RolesOf(bid) == {r.role_id : r \in {x \in bindings : x.button_id = bid}}

\* SELECT b.id FROM ticket_buttons b JOIN ticket_panels p ON b.panel_id = p.id
\*   WHERE p.guild_id = ? AND p.panel_name = ? AND b.button_position = ?
ButtonsOfAnyGuild(g, n, pos) ==
    {b \in buttons : b.button_position = pos /\
        \E p \in panels : p.id = b.panel_id /\ p.panel_name = n}
ButtonsOfNamedPanel(g, n, pos) ==
    {b \in buttons : b.button_position = pos /\
        \E p \in panels : p.id = b.panel_id /\ p.guild_id = g /\ p.panel_name = n}

\* --------------------------------------------------------- setup_panel
\* Python `x or 'Default'`: None and the empty string are both falsy.
OrDefault(s) == IF s = NULL \/ s = "" THEN "Default" ELSE s

\* f'<#{id}>' if id else 'Not Set'
ChannelOrNotSet(id) ==
    IF id /= NoId THEN [text |-> "<#id>", id |-> id] ELSE [text |-> "Not Set", id |-> NoId]

\* the body of the configuration message, built from the row that was read
PanelReportSwapped(row) ==
    [kind |-> "panel",
     title |-> OrDefault(row.panel_title), desc |-> OrDefault(row.panel_description),
     cat |-> ChannelOrNotSet(row.log_channel_id), log |-> ChannelOrNotSet(row.category_id)]
PanelReport(row) ==
    [kind |-> "panel",
     title |-> OrDefault(row.panel_title), desc |-> OrDefault(row.panel_description),
     cat |-> ChannelOrNotSet(row.category_id), log |-> ChannelOrNotSet(row.log_channel_id)]

\* all(arg is None for arg in [category, log_channel, panel_title, panel_description])
PanelArgsAllNone(pa) ==
    /\ pa.category = NoId
    /\ pa.log_channel = NoId
    /\ pa.panel_title = NULL
    /\ pa.panel_description = NULL

\* the four new_* values: an argument when given, else what the SELECT returned
MergedPanel(pa, rows) ==
    IF rows /= {}
    THEN LET e == CHOOSE p \in rows : TRUE
         IN  [title |-> IF pa.panel_title /= NULL THEN pa.panel_title ELSE e.panel_title,
              desc |-> IF pa.panel_description /= NULL THEN pa.panel_description
                       ELSE e.panel_description,
              cat |-> IF pa.category /= NoId THEN pa.category ELSE e.category_id,
              log |-> IF pa.log_channel /= NoId THEN pa.log_channel ELSE e.log_channel_id]
    ELSE [title |-> pa.panel_title, desc |-> pa.panel_description,
          cat |-> pa.category, log |-> pa.log_channel]

\* setup_panel up to its first write: the SELECT, the all-None display branch,
\* and the merge of the arguments over the row that was read.
SetupPanelRead(h, g, n, pa) ==
    /\ Free(h)
    /\ LET rows == PanelRows(g, n)
           f == [Idle EXCEPT !.op = "setup_panel", !.guild = g, !.name = n, !.pa = pa]
       IN  hs' = [hs EXCEPT ![h] =
               IF PanelArgsAllNone(pa)
               THEN IF rows /= {}
                    THEN Finished(f, "client", PanelReport(CHOOSE p \in rows : TRUE))
                    ELSE Finished(f, "failure", NoOut)
               ELSE [f EXCEPT !.pc = "sp_write", !.vals = MergedPanel(pa, rows)]]
    /\ UNCHANGED <<db, world>>

\* INSERT INTO ticket_panels ... ON CONFLICT(guild_id, panel_name) DO UPDATE SET ...
UpsertPanel(g, n, v) ==
    LET rows == PanelRows(g, n)
    IN  IF rows /= {}
        THEN (panels \ rows) \cup
                {[p EXCEPT !.panel_title = v.title, !.panel_description = v.desc,
                           !.category_id = v.cat, !.log_channel_id = v.log] : p \in rows}
        ELSE panels \cup
                {[id |-> nextPanelId, guild_id |-> g, panel_name |-> n,
                  panel_title |-> v.title, panel_description |-> v.desc,
                  channel_id |-> NoId, message_id |-> NoId,
                  category_id |-> v.cat, log_channel_id |-> v.log]}

SetupPanelWrite(h) ==
    /\ hs[h].pc = "sp_write"
    /\ LET fresh == PanelRows(hs[h].guild, hs[h].name) = {}
       IN  /\ fresh => nextPanelId <= MaxPanelId
           /\ panels' = UpsertPanel(hs[h].guild, hs[h].name, hs[h].vals)
           /\ nextPanelId' = IF fresh THEN nextPanelId + 1 ELSE nextPanelId
    /\ hs' = [hs EXCEPT ![h] = Finished(hs[h], "success", NoOut)]
    /\ UNCHANGED <<buttons, bindings, tickets, nextButtonId, world>>

\* --------------------------------------------------------- delete_panel
DeletePanelRead(h, g, n) ==
    /\ Free(h)
    /\ LET f == [Idle EXCEPT !.op = "delete_panel", !.guild = g, !.name = n]
       IN  hs' = [hs EXCEPT ![h] =
               IF PanelRows(g, n) = {}
               THEN Finished(f, "failure", NoOut)
               ELSE [f EXCEPT !.pc = "dp_write"]]
    /\ UNCHANGED <<db, world>>

\* DELETE FROM ticket_panels WHERE guild_id = ? AND panel_name = ?
\* (no connection issues PRAGMA foreign_keys = ON, so the ON DELETE CASCADE of
\* ticket_buttons.panel_id does not run)
DeletePanelRows(g, n) == panels \ PanelRows(g, n)

DeletePanelWrite(h) ==
    /\ hs[h].pc = "dp_write"
    /\ panels' = DeletePanelRows(hs[h].guild, hs[h].name)
    /\ hs' = [hs EXCEPT ![h] = Finished(hs[h], "success", NoOut)]
    /\ UNCHANGED <<buttons, bindings, tickets, nextPanelId, nextButtonId, world>>

\* --------------------------------------------------------- setup_button
ButtonFields ==
    {"button_label", "ticket_title", "ticket_message", "button_emoji", "button_style",
     "ticket_color"}

\* `support_roles is not None`
RolesGivenIfTruthy(roles) == roles.given /\ roles.tokens /= <<>>
RolesGiven(roles) == roles.given

\* button_label is None and ... and support_roles is None
ButtonArgsAllNone(a, roles) == (\A f \in ButtonFields : a[f] = NULL) /\ ~RolesGiven(roles)

SetupButtonRead(h, g, n, pos, a, roles) ==
    /\ Free(h)
    /\ LET rows == PanelRows(g, n)
           f == [Idle EXCEPT !.op = "setup_button", !.guild = g, !.name = n, !.pos = pos,
                             !.ba = a, !.roles = roles]
       IN  hs' = [hs EXCEPT ![h] =
               IF rows = {}
               THEN Finished(f, "failure", NoOut)
               ELSE [f EXCEPT !.pc = "sb_body", !.pid = (CHOOSE p \in rows : TRUE).id]]
    /\ UNCHANGED <<db, world>>

\* the display branch: every optional argument is None
ButtonReport(b) ==
    [kind |-> "button",
     label |-> b.button_label, title |-> b.ticket_title, message |-> b.ticket_message,
     emoji |-> b.button_emoji, style |-> b.button_style, color |-> b.ticket_color,
     roles |-> RolesOf(b.id)]

SetupButtonShow(h) ==
    /\ hs[h].pc = "sb_body"
    /\ ButtonArgsAllNone(hs[h].ba, hs[h].roles)
    /\ LET rows == ButtonRows(hs[h].pid, hs[h].pos)
       IN  hs' = [hs EXCEPT ![h] =
               IF rows /= {}
               THEN Finished(hs[h], "client", ButtonReport(CHOOSE x \in rows : TRUE))
               ELSE Finished(hs[h], "client", NoOut)]
    /\ UNCHANGED <<db, world>>

\* style_name = button_style.name.lower() if button_style else self.default_button_color
StyleName(style) == IF style /= NULL THEN style ELSE "primary"

\* COALESCE(excluded.f, f)
Coalesce(new, old) == IF new /= NULL THEN new ELSE old

\* the row that INSERT ... VALUES (...) offers
Excluded(a) == [a EXCEPT !.button_style = StyleName(a.button_style)]

\* ON CONFLICT(panel_id, button_position) DO UPDATE SET f = COALESCE(excluded.f, f), ...
UpdatedButton(b, a) ==
    LET e == Excluded(a)
    IN  [b EXCEPT !.button_label = Coalesce(e.button_label, b.button_label),
                  !.ticket_title = Coalesce(e.ticket_title, b.ticket_title),
                  !.ticket_message = Coalesce(e.ticket_message, b.ticket_message),
                  !.button_emoji = Coalesce(e.button_emoji, b.button_emoji),
                  !.button_style = Coalesce(e.button_style, b.button_style),
                  !.ticket_color = Coalesce(e.ticket_color, b.ticket_color)]

InsertedButton(id, pid, pos, a) ==
    LET e == Excluded(a)
    IN  [id |-> id, panel_id |-> pid, button_position |-> pos,
         button_label |-> e.button_label, ticket_title |-> e.ticket_title,
         ticket_message |-> e.ticket_message, button_emoji |-> e.button_emoji,
         button_style |-> e.button_style, ticket_color |-> e.ticket_color]

\* INSERT INTO ticket_buttons ... ON CONFLICT(panel_id, button_position) DO UPDATE SET ...
InsertButtonAlways(pid, pos, a) == buttons \cup {InsertedButton(nextButtonId, pid, pos, a)}
UpsertButton(pid, pos, a) ==
    LET rows == ButtonRows(pid, pos)
    IN  IF rows /= {}
        THEN (buttons \ rows) \cup {UpdatedButton(b, a) : b \in rows}
        ELSE buttons \cup {InsertedButton(nextButtonId, pid, pos, a)}

\* A token of support_roles.split(','), after strip(): `wrapped` says it starts
\* with '<@&' and ends with '>', `num` whether int() accepts what is left, `val`
\* the integer it then denotes.
RECURSIVE ParseRoles(_)
ParseRoles(tokens) ==
    IF tokens = <<>> THEN [ok |-> TRUE, ids |-> <<>>]
    ELSE LET t == Head(tokens)
             rest == ParseRoles(Tail(tokens))
         IN  IF t.wrapped /\ ~t.num
             THEN [ok |-> FALSE, ids |-> <<>>]        \* int() raises ValueError, uncaught
             ELSE IF ~rest.ok THEN rest
             ELSE IF ~t.num THEN rest                 \* except ValueError: continue
             ELSE [ok |-> TRUE, ids |-> <<t.val>> \o rest.ids]

\* INSERT INTO ticket_button_roles one id at a time under UNIQUE(button_id, role_id):
\* the second insert of an id raises IntegrityError.
NoDuplicate(ids) == \A i, j \in 1..Len(ids) : i /= j => ids[i] /= ids[j]

\* DELETE FROM ticket_button_roles WHERE button_id = ?, then one INSERT per parsed id
ReplacedBindings(bid, ids) ==
    {x \in bindings : x.button_id /= bid} \cup
    {[button_id |-> bid, role_id |-> ids[i]] : i \in 1..Len(ids)}

\* The write transaction of setup_button: the upsert and, when support_roles is
\* given, DELETE + re-INSERT of the bindings, then commit; an exception before the
\* commit leaves the connection to close without it, which rolls everything back.
SetupButtonWrite(h) ==
    /\ hs[h].pc = "sb_body"
    /\ ~ButtonArgsAllNone(hs[h].ba, hs[h].roles)
    /\ LET pid == hs[h].pid
           pos == hs[h].pos
           roles == hs[h].roles
           fresh == ButtonRows(pid, pos) = {}
           newButtons == UpsertButton(pid, pos, hs[h].ba)
           bid == (CHOOSE b \in newButtons : b.panel_id = pid /\ b.button_position = pos).id
           parsed == ParseRoles(roles.tokens)
           raised == RolesGiven(roles) /\ (~parsed.ok \/ ~NoDuplicate(parsed.ids))
           found == [existed |-> ~fresh,
                     bound |-> \E b \in ButtonRows(pid, pos) : RolesOf(b.id) /= {}]
           f == [hs[h] EXCEPT !.before = found]
       IN  /\ fresh => nextButtonId <= MaxButtonId
           /\ IF raised
              THEN /\ UNCHANGED <<buttons, bindings, nextButtonId>>
                   /\ hs' = [hs EXCEPT ![h] = Finished(f, "error", NoOut)]
              ELSE /\ buttons' = newButtons
                   /\ nextButtonId' = IF fresh THEN nextButtonId + 1 ELSE nextButtonId
                   /\ bindings' = IF RolesGiven(roles)
                                  THEN ReplacedBindings(bid, parsed.ids)
                                  ELSE bindings
                   /\ hs' = [hs EXCEPT ![h] = Finished(f, "success", NoOut)]
    /\ UNCHANGED <<panels, tickets, nextPanelId, world>>

\* --------------------------------------------------------- delete_button
DeleteButtonRead(h, g, n, pos) ==
    /\ Free(h)
    /\ LET f == [Idle EXCEPT !.op = "delete_button", !.guild = g, !.name = n, !.pos = pos]
       IN  hs' = [hs EXCEPT ![h] =
               IF ButtonsOfNamedPanel(g, n, pos) = {}
               THEN Finished(f, "failure", NoOut)
               ELSE [f EXCEPT !.pc = "db_write"]]
    /\ UNCHANGED <<db, world>>

\* DELETE FROM ticket_buttons WHERE id IN (SELECT ...): ticket_button_roles is
\* not touched.
DeleteButtonRows(g, n, pos) == buttons \ ButtonsOfNamedPanel(g, n, pos)

DeleteButtonWrite(h) ==
    /\ hs[h].pc = "db_write"
    /\ buttons' = DeleteButtonRows(hs[h].guild, hs[h].name, hs[h].pos)
    /\ hs' = [hs EXCEPT ![h] = Finished(hs[h], "success", NoOut)]
    /\ UNCHANGED <<panels, bindings, tickets, nextPanelId, nextButtonId, world>>

\* --------------------------------------------------------- get_ticket_id
\* Python's & and ^ on non-negative integers, bit by bit; >> as division.
RECURSIVE BitAnd(_, _)
BitAnd(a, b) ==
    IF a = 0 \/ b = 0 THEN 0
    ELSE (a % 2) * (b % 2) + 2 * BitAnd(a \div 2, b \div 2)

RECURSIVE BitXor(_, _)
BitXor(a, b) ==
    IF a = 0 THEN b
    ELSE IF b = 0 THEN a
    ELSE (((a % 2) + (b % 2)) % 2) + 2 * BitXor(a \div 2, b \div 2)

ShiftRight(a, n) == a \div 2^n

TenBits == 2^10 - 1                 \* 0x3FF

\* ticket_channel_id & 0x3FF ^ (ticket_channel_id >> 10) & 0x3FF: in Python >>
\* binds tighter than &, and & tighter than ^.
get_ticket_id_unmasked(c) == BitXor(BitAnd(c, TenBits), ShiftRight(c, 10))
get_ticket_id(c) == BitXor(BitAnd(c, TenBits), BitAnd(ShiftRight(c, 10), TenBits))

\* --------------------------------------------------------- platform
\* A category or text channel of the guild is deleted: guild.get_channel(id)
\* returns None from then on.
GuildChannelDeleted(c) ==
    /\ c \notin gone
    /\ gone' = gone \cup {c}
    /\ UNCHANGED <<db, chans, transcripts, nextChannelId, clock, posted, hs>>

Resolvable(c) == c /= NoId /\ c \notin gone

\* the ticket channel with this id, and whether it still exists
Chan(c) == CHOOSE x \in chans : x.id = c
Live(c) == \E x \in chans : x.id = c /\ x.live

\* --------------------------------------------------------- TicketPanelView
\* TicketPanelView(cog, guild_id, panel_id)
NewView(pid) == [panel_id |-> pid, items |-> <<>>, buttons_loaded |-> FALSE]

\* SELECT ... FROM ticket_buttons WHERE panel_id = ? ORDER BY button_position
RECURSIVE OrderedByPosition(_)
OrderedByPosition(rows) ==
    IF rows = {} THEN <<>>
    ELSE LET b == CHOOSE x \in rows :
                    \A y \in rows : x.button_position <= y.button_position
         IN  <<b>> \o OrderedByPosition(rows \ {b})

\* TicketPanelButton(button_id, position, ...) of a view of panel pid
Control(bid, pos, pid) == [button_id |-> bid, position |-> pos, panel_id |-> pid]

\* load_buttons: nothing when the view is loaded already; else one control per
\* row in the order of the query and, when there is no row, the default control
\* (position 0, no button id).
load_buttons_again(view) ==
    LET rows == OrderedByPosition({b \in buttons : b.panel_id = view.panel_id})
        added == IF rows = <<>> THEN <<Control(NoId, 0, view.panel_id)>>
                 ELSE [i \in 1..Len(rows) |->
                        Control(rows[i].id, rows[i].button_position, view.panel_id)]
    IN  [view EXCEPT !.items = view.items \o added, !.buttons_loaded = TRUE]
load_buttons(view) ==
    IF view.buttons_loaded THEN view
    ELSE LET rows == OrderedByPosition({b \in buttons : b.panel_id = view.panel_id})
             added == IF rows = <<>> THEN <<Control(NoId, 0, view.panel_id)>>
                      ELSE [i \in 1..Len(rows) |->
                             Control(rows[i].id, rows[i].button_position, view.panel_id)]
         IN  [view EXCEPT !.items = view.items \o added, !.buttons_loaded = TRUE]

\* the controls of a freshly built and loaded view of panel pid
LoadButtons(pid) == load_buttons(NewView(pid)).items

\* custom_id=f"ticket_button_{guild_id}_{position}_{button_id or 'default'}"
custom_id(guild_id, position, button_id) ==
    "ticket_button_" \o ToString(guild_id) \o "_" \o ToString(position) \o "_" \o
    (IF button_id = NoId THEN "default" ELSE ToString(button_id))

\* setup_views: for each row of ticket_panels a TicketPanelView(self, guild_id,
\* panel_id) with its buttons loaded, handed to bot.add_view; ticket_here builds
\* the same view for the panel it posts
PanelViews ==
    {[guild_id |-> p.guild_id, panel_id |-> p.id, items |-> LoadButtons(p.id)] : p \in panels}

\* the custom_id of every control of a view
ControlIds(v) ==
    {custom_id(v.guild_id, v.items[i].position, v.items[i].button_id) :
        i \in 1..Len(v.items)}

\* --------------------------------------------------------- ticket_here
\* SELECT id, panel_title, panel_description, channel_id, message_id FROM
\* ticket_panels WHERE guild_id = ? AND panel_name = ?; `arg` is the channel
\* argument (NoId when omitted), `inv` the channel the command was used in.
HereRead(h, g, n, arg, inv) ==
    /\ Free(h)
    /\ LET f == [Idle EXCEPT !.op = "ticket_here", !.guild = g, !.name = n]
       IN  hs' = [hs EXCEPT ![h] =
               IF PanelRows(g, n) = {}
               THEN Finished(f, "failure", NoOut)
               ELSE LET p == CHOOSE x \in PanelRows(g, n) : TRUE
                    IN  [f EXCEPT !.pc = "th_old", !.pid = p.id,
                                  !.vals = [NoVals EXCEPT !.title = p.panel_title,
                                                          !.desc = p.panel_description],
                                  !.here = [NoHere EXCEPT !.given = arg, !.channel = arg,
                                                !.invoked = inv,
                                                !.old_channel_id = p.channel_id,
                                                !.old_message_id = p.message_id]]]
    /\ UNCHANGED <<db, world>>

\* guild.get_channel(id): the channel, or None once it was deleted
GetChannel(c) == IF Resolvable(c) THEN c ELSE NoId

\* "Delete previous panel message if exists": the lookup of the old channel is
\* assigned to `channel`, the name of the argument.  fetch_message and delete run
\* inside try/except; `ok` is whether they succeed.
HereDeleteOld(h, ok) ==
    /\ hs[h].pc = "th_old"
    /\ LET w == hs[h].here
           had == w.old_channel_id /= NoId /\ w.old_message_id /= NoId
           channel == IF had THEN GetChannel(w.old_channel_id) ELSE w.channel
       IN  /\ msgs' = IF had /\ channel /= NoId /\ ok
                      THEN {IF m.id = w.old_message_id THEN [m EXCEPT !.live = FALSE] ELSE m :
                                m \in msgs}
                      ELSE msgs
           /\ hs' = [hs EXCEPT ![h] = [hs[h] EXCEPT !.pc = "th_load",
                                                    !.here.channel = channel]]
    /\ UNCHANGED <<db, chans, transcripts, gone, nextChannelId, clock, nextMessageId>>

\* view = TicketPanelView(...); await view.load_buttons()
HereLoad(h) ==
    /\ hs[h].pc = "th_load"
    /\ hs' = [hs EXCEPT ![h] = [hs[h] EXCEPT !.pc = "th_send",
                                             !.here.view = LoadButtons(hs[h].pid)]]
    /\ UNCHANGED <<db, world>>

\* new_channel = channel if channel is not None else interaction.channel
NewChannel(w) == IF w.channel /= NoId THEN w.channel ELSE w.invoked

\* panel_message = await log.safe_send_message(new_channel, embed=embed, view=view);
\* `ok` is whether a message comes back.  Without one the handler ends at
\* panel_message.id or inside the call.
HereSend(h, ok) ==
    /\ hs[h].pc = "th_send"
    /\ IF ok /\ Resolvable(NewChannel(hs[h].here))
       THEN /\ nextMessageId <= MaxMessageId
            /\ msgs' = msgs \cup {[id |-> nextMessageId, chan |-> NewChannel(hs[h].here),
                                   view |-> hs[h].here.view, live |-> TRUE]}
            /\ nextMessageId' = nextMessageId + 1
            /\ hs' = [hs EXCEPT ![h] = [hs[h] EXCEPT !.pc = "th_write",
                                                     !.here.message = nextMessageId]]
       ELSE /\ hs' = [hs EXCEPT ![h] = Finished(hs[h], "error", NoOut)]
            /\ UNCHANGED <<msgs, nextMessageId>>
    /\ UNCHANGED <<db, chans, transcripts, gone, nextChannelId, clock>>

\* UPDATE ticket_panels SET channel_id = ?, message_id = ? WHERE id = ?
RepostedPanels(pid, c, m) ==
    {IF p.id = pid THEN [p EXCEPT !.channel_id = c, !.message_id = m] ELSE p : p \in panels}

HereWrite(h) ==
    /\ hs[h].pc = "th_write"
    /\ panels' = RepostedPanels(hs[h].pid, NewChannel(hs[h].here), hs[h].here.message)
    /\ hs' = [hs EXCEPT ![h] = Finished(hs[h], "success", NoOut)]
    /\ UNCHANGED <<buttons, bindings, tickets, nextPanelId, nextButtonId, world>>

\* --------------------------------------------------------- create_ticket
\* TicketPanelButton.get_support_roles
SupportRoles(ctl) == IF ctl.button_id = NoId THEN {} ELSE RolesOf(ctl.button_id)

\* SELECT category_id FROM ticket_panels WHERE id = ?, and the two early returns
CategoryOf(pid) ==
    LET rows == {p \in panels : p.id = pid}
    IN  IF rows = {} THEN NoId ELSE (CHOOSE p \in rows : TRUE).category_id

AfterCategoryReadUnchecked(f) ==
    [f EXCEPT !.pc = "tc_channel", !.catid = CategoryOf(f.ctl.panel_id)]
AfterCategoryRead(f) ==
    IF f.ctl.panel_id = NoId
    THEN Finished(f, "failure", [kind |-> "no_panel"])
    ELSE IF CategoryOf(f.ctl.panel_id) = NoId
    THEN Finished(f, "failure", [kind |-> "not_configured"])
    ELSE [f EXCEPT !.pc = "tc_channel", !.catid = CategoryOf(f.ctl.panel_id)]

\* TicketPanelButton.callback on a control of a freshly built view of panel pid.
\* The default control has no roles to read, so its first storage call is the
\* category SELECT of create_ticket.
Callback(u, ctl) ==
    LET f == [Idle EXCEPT !.op = "create", !.guild = Guild, !.user = u, !.ctl = ctl,
                          !.sroles = SupportRoles(ctl)]
    IN  IF ctl.button_id = NoId THEN AfterCategoryRead(f)
        ELSE [f EXCEPT !.pc = "tc_category"]

Activate(h, u, pid, i) ==
    /\ Free(h)
    /\ \E p \in panels : p.id = pid
    /\ i \in 1..Len(LoadButtons(pid))
    /\ hs' = [hs EXCEPT ![h] = Callback(u, LoadButtons(pid)[i])]
    /\ UNCHANGED <<db, world>>

\* The same callback on a control of a panel message posted earlier: the control
\* carries the button id and the panel id its view was built with.
ActivatePosted(h, u, mid, i) ==
    /\ Free(h)
    /\ \E m \in msgs :
            /\ m.id = mid /\ m.live /\ m.chan \notin gone
            /\ i \in 1..Len(m.view)
            /\ hs' = [hs EXCEPT ![h] = Callback(u, m.view[i])]
    /\ UNCHANGED <<db, world>>

CreateCategoryRead(h) ==
    /\ hs[h].pc = "tc_category"
    /\ hs' = [hs EXCEPT ![h] = AfterCategoryRead(hs[h])]
    /\ UNCHANGED <<db, world>>

\* A role of the guild is deleted: guild.get_role(id) returns None from then on.
GuildRoleDeleted(r) ==
    /\ r \notin gone
    /\ gone' = gone \cup {r}
    /\ UNCHANGED <<db, chans, transcripts, nextChannelId, clock, posted, hs>>

\* the overwrites: read denied to the default role; read and send allowed to the
\* requester, the bot and every bound role guild.get_role() resolves
OverwritesOfAllRoles(u, sroles) ==
    [deny |-> {"everyone"}, members |-> {u.id, Me}, roles |-> sroles]
Overwrites(u, sroles) ==
    [deny |-> {"everyone"}, members |-> {u.id, Me},
     roles |-> {r \in sroles : Resolvable(r)}]

\* A handler of create_ticket that a platform call raised out of.
AbortedGoesOn(f) == [f EXCEPT !.pc = "tc_insert"]
Aborted(f) == Finished(f, "error", NoOut)

\* category.create_text_channel(...); `ok` is whether the platform call succeeds.
\* A category that no longer resolves is None, and the call raises.
CreateChannel(h, ok) ==
    /\ hs[h].pc = "tc_channel"
    /\ IF ok /\ Resolvable(hs[h].catid)
       THEN /\ Cardinality(chans) < MaxChannelId
            /\ chans' = chans \cup
                    {[id |-> nextChannelId, live |-> TRUE, panel |-> hs[h].ctl.panel_id,
                      allow |-> Overwrites(hs[h].user, hs[h].sroles),
                      named |-> FALSE, number |-> 0, thread |-> "none"]}
            /\ nextChannelId' = nextChannelId + 1
            /\ hs' = [hs EXCEPT ![h] = [hs[h] EXCEPT !.pc = "tc_rename",
                                                      !.chan = nextChannelId]]
       ELSE /\ hs' = [hs EXCEPT ![h] = Aborted(hs[h])]
            /\ UNCHANGED <<chans, nextChannelId>>
    /\ UNCHANGED <<db, transcripts, gone, clock, posted>>

\* channel.edit(name=f"ticket-{get_ticket_id(channel.id)}")
CreateRename(h, ok) ==
    /\ hs[h].pc = "tc_rename"
    /\ IF ok /\ Live(hs[h].chan)
       THEN /\ chans' = (chans \ {Chan(hs[h].chan)}) \cup
                            {[Chan(hs[h].chan) EXCEPT !.named = TRUE,
                                    !.number = get_ticket_id(hs[h].chan)]}
            /\ hs' = [hs EXCEPT ![h] = [hs[h] EXCEPT !.pc = "tc_thread"]]
       ELSE /\ hs' = [hs EXCEPT ![h] = Aborted(hs[h])]
            /\ UNCHANGED chans
    /\ UNCHANGED <<db, transcripts, gone, nextChannelId, clock, posted>>

\* channel.create_thread(name="Staff Discussion", ...)
CreateThread(h, ok) ==
    /\ hs[h].pc = "tc_thread"
    /\ IF ok /\ Live(hs[h].chan)
       THEN /\ chans' = (chans \ {Chan(hs[h].chan)}) \cup
                            {[Chan(hs[h].chan) EXCEPT !.thread = "open"]}
            /\ hs' = [hs EXCEPT ![h] = [hs[h] EXCEPT !.pc = "tc_members"]]
       ELSE /\ hs' = [hs EXCEPT ![h] = Aborted(hs[h])]
            /\ UNCHANGED chans
    /\ UNCHANGED <<db, transcripts, gone, nextChannelId, clock, posted>>

\* thread.add_user(me), then add_user for the members of the roles (a failure of
\* those is skipped); then the two initial messages, of which thread.send raises
CreateMembers(h, ok) ==
    /\ hs[h].pc = "tc_members"
    /\ hs' = [hs EXCEPT ![h] =
            IF ok /\ Live(hs[h].chan) THEN [hs[h] EXCEPT !.pc = "tc_send"]
            ELSE Aborted(hs[h])]
    /\ UNCHANGED <<db, world>>

CreateSend(h, ok) ==
    /\ hs[h].pc = "tc_send"
    /\ hs' = [hs EXCEPT ![h] =
            IF ok /\ Live(hs[h].chan) THEN [hs[h] EXCEPT !.pc = "tc_insert"]
            ELSE Aborted(hs[h])]
    /\ UNCHANGED <<db, world>>

\* INSERT INTO tickets (channel_id, guild_id, user_id, created_at, button_id)
\* VALUES (channel.id, interaction.guild_id, interaction.user.id, now, button_id)
TicketRowOfPanel(f, now) ==
    [channel_id |-> f.chan, guild_id |-> f.guild, user_id |-> f.user.id,
     created_at |-> now, closed_at |-> NoId, button_id |-> f.ctl.panel_id]
TicketRow(f, now) ==
    [channel_id |-> f.chan, guild_id |-> f.guild, user_id |-> f.user.id,
     created_at |-> now, closed_at |-> NoId, button_id |-> f.ctl.button_id]

CreateInsert(h) ==
    /\ hs[h].pc = "tc_insert"
    /\ clock <= MaxClock
    /\ tickets' = tickets \cup {TicketRow(hs[h], clock)}
    /\ clock' = clock + 1
    /\ hs' = [hs EXCEPT ![h] = Finished(hs[h], "success", NoOut)]
    /\ UNCHANGED <<panels, buttons, bindings, nextPanelId, nextButtonId,
                   chans, transcripts, gone, nextChannelId, posted>>

\* --------------------------------------------------------- close_ticket
\* SELECT button_id FROM tickets WHERE channel_id = ?
TicketRows(c) == {t \in tickets : t.channel_id = c}

\* The close button of TicketView and the close command both run close_ticket
\* with the interaction of the channel they were used in.
CloseLookup(h, u, c) ==
    /\ Free(h)
    /\ Live(c)
    /\ LET f == [Idle EXCEPT !.op = "close", !.guild = Guild, !.user = u, !.chan = c]
       IN  hs' = [hs EXCEPT ![h] =
               IF TicketRows(c) = {}
               THEN Finished(f, "not_registered", NoOut)
               ELSE [f EXCEPT !.pc = "cl_roles",
                              !.bid = (CHOOSE t \in TicketRows(c) : TRUE).button_id]]
    /\ UNCHANGED <<db, world>>

\* administrator, or any(role_id in user_roles for role_id in support_roles)
PermittedIfNoneBound(u, sroles) == u.admin \/ sroles = {} \/ u.roles \cap sroles /= {}
PermittedByRoleOnly(u, sroles) == u.roles \cap sroles /= {}
Permitted(u, sroles) == u.admin \/ u.roles \cap sroles /= {}

\* SELECT role_id FROM ticket_button_roles WHERE button_id = ?, then the permission test
CloseRoles(h) ==
    /\ hs[h].pc = "cl_roles"
    /\ hs' = [hs EXCEPT ![h] =
            IF Permitted(hs[h].user, RolesOf(hs[h].bid))
            THEN [hs[h] EXCEPT !.pc = "cl_log", !.sroles = RolesOf(hs[h].bid)]
            ELSE Finished(hs[h], "denied", NoOut)]
    /\ UNCHANGED <<db, world>>

\* SELECT p.log_channel_id FROM ticket_panels p JOIN ticket_buttons b
\*   ON p.id = b.panel_id WHERE b.id = ?
LogChannelOf(bid) ==
    LET rows == {p \in panels : \E b \in buttons : b.id = bid /\ b.panel_id = p.id}
    IN  IF rows = {} THEN NoId ELSE (CHOOSE p \in rows : TRUE).log_channel_id

CloseLog(h) ==
    /\ hs[h].pc = "cl_log"
    /\ hs' = [hs EXCEPT ![h] = [hs[h] EXCEPT !.pc = "cl_update",
                                              !.logid = LogChannelOf(hs[h].bid)]]
    /\ UNCHANGED <<db, world>>

\* UPDATE tickets SET closed_at = ? WHERE channel_id = ?
MarkClosed(c, now) ==
    {IF t.channel_id = c THEN [t EXCEPT !.closed_at = now] ELSE t : t \in tickets}

CloseUpdate(h) ==
    /\ hs[h].pc = "cl_update"
    /\ clock <= MaxClock
    /\ tickets' = MarkClosed(hs[h].chan, clock)
    /\ clock' = clock + 1
    /\ hs' = [hs EXCEPT ![h] = [hs[h] EXCEPT !.pc = "cl_transcript"]]
    /\ UNCHANGED <<panels, buttons, bindings, nextPanelId, nextButtonId,
                   chans, transcripts, gone, nextChannelId, posted>>

\* The transcript: channel.history(...) and log_channel.send(...), run only when
\* the log channel id is set and resolves.  `ok` is whether both platform calls
\* succeed; neither is inside a try, so a failure ends the handler here.
CloseTranscript(h, ok) ==
    /\ hs[h].pc = "cl_transcript"
    /\ IF Resolvable(hs[h].logid)
       THEN IF ok /\ Live(hs[h].chan)
            THEN /\ transcripts' = transcripts \cup
                        {[log |-> hs[h].logid, chan |-> hs[h].chan]}
                 /\ hs' = [hs EXCEPT ![h] = [hs[h] EXCEPT !.pc = "cl_archive"]]
            ELSE /\ hs' = [hs EXCEPT ![h] = Finished(hs[h], "error", NoOut)]
                 /\ UNCHANGED transcripts
       ELSE /\ hs' = [hs EXCEPT ![h] = [hs[h] EXCEPT !.pc = "cl_archive"]]
            /\ UNCHANGED transcripts
    /\ UNCHANGED <<db, chans, gone, nextChannelId, clock, posted>>

\* thread.edit(archived=True, locked=True) inside try/except HTTPException, then
\* the "Closing ticket in 5 seconds..." reply and the sleep
CloseArchive(h, ok) ==
    /\ hs[h].pc = "cl_archive"
    /\ chans' = IF ok /\ Live(hs[h].chan) /\ Chan(hs[h].chan).thread = "open"
                THEN (chans \ {Chan(hs[h].chan)}) \cup
                        {[Chan(hs[h].chan) EXCEPT !.thread = "archived"]}
                ELSE chans
    /\ hs' = [hs EXCEPT ![h] = [hs[h] EXCEPT !.pc = "cl_delete"]]
    /\ UNCHANGED <<db, transcripts, gone, nextChannelId, clock, posted>>

\* interaction.channel.delete(), after the sleep; on a channel that is already
\* gone the call raises NotFound
CloseDelete(h) ==
    /\ hs[h].pc = "cl_delete"
    /\ IF Live(hs[h].chan)
       THEN /\ chans' = (chans \ {Chan(hs[h].chan)}) \cup
                            {[Chan(hs[h].chan) EXCEPT !.live = FALSE]}
            /\ hs' = [hs EXCEPT ![h] = Finished(hs[h], "closed", NoOut)]
       ELSE /\ UNCHANGED chans
            /\ hs' = [hs EXCEPT ![h] = Finished(hs[h], "error", NoOut)]
    /\ UNCHANGED <<db, transcripts, gone, nextChannelId, clock, posted>>

\* ------------------------------------------------------- the input sets
BareToken(r) == [wrapped |-> FALSE, num |-> TRUE, val |-> r]       \* "11"
MentionToken(r) == [wrapped |-> TRUE, num |-> TRUE, val |-> r]     \* "<@&11>"
EmptyString == [given |-> TRUE, tokens |-> <<>>]                   \* support_roles = ""
RolesString(tokens) == [given |-> TRUE, tokens |-> tokens]

\* one handler at a time, every field of a button at one position
FieldValue(f) == IF f = "button_style" THEN "danger" ELSE "x"
FieldArgs ==
    {a \in [ButtonFields -> {NULL, "x", "danger"}] :
        /\ \A f \in ButtonFields : a[f] \in {NULL, FieldValue(f)}
        /\ Cardinality({f \in ButtonFields : a[f] /= NULL}) <= 2}
FieldRoles == {NoRolesArg, EmptyString, RolesString(<<BareToken(Role1)>>)}
PlainPanel == [NoPanelArgs EXCEPT !.category = Cat1]

NextFields ==
    \/ SetupPanelRead(1, Guild, "main", PlainPanel)
    \/ SetupPanelWrite(1)
    \/ \E a \in FieldArgs, r \in FieldRoles : SetupButtonRead(1, Guild, "main", 1, a, r)
    \/ SetupButtonShow(1)
    \/ SetupButtonWrite(1)
    \/ DeleteButtonRead(1, Guild, "main", 1)
    \/ DeleteButtonWrite(1)

SpecFields == Init /\ [][NextFields]_vars

\* two handlers interleaving, every position, one field
LabelOnly == [NoButtonArgs EXCEPT !.button_label = "x"]

NextConfig ==
    \E h \in Handlers :
        \/ SetupPanelRead(h, Guild, "main", PlainPanel)
        \/ SetupPanelWrite(h)
        \/ DeletePanelRead(h, Guild, "main")
        \/ DeletePanelWrite(h)
        \/ \E pos \in Positions : SetupButtonRead(h, Guild, "main", pos, LabelOnly, NoRolesArg)
        \/ SetupButtonWrite(h)
        \/ \E pos \in Positions : DeleteButtonRead(h, Guild, "main", pos)
        \/ DeleteButtonWrite(h)

SpecConfig == Init /\ [][NextConfig]_vars

\* one handler at a time, every optional argument of setup_panel
PanelArgs ==
    [category : {NoId, Cat1}, log_channel : {NoId, Log1},
     panel_title : {NULL, "", "T"}, panel_description : {NULL, "D"}]

NextPanel ==
    \/ \E pa \in PanelArgs : SetupPanelRead(1, Guild, "main", pa)
    \/ SetupPanelWrite(1)
    \/ DeletePanelRead(1, Guild, "main")
    \/ DeletePanelWrite(1)

SpecPanel == Init /\ [][NextPanel]_vars

\* a panel is configured, then tickets are opened from it and closed
LoggedPanel == [NoPanelArgs EXCEPT !.category = Cat1, !.log_channel = Log1]
Requester == [id |-> 4, admin |-> FALSE, roles |-> {}]
Admin == [id |-> 1, admin |-> TRUE, roles |-> {}]
Staff == [id |-> 2, admin |-> FALSE, roles |-> {Role1}]
Closers == {Admin, Staff}
StaffRoles == {NoRolesArg, RolesString(<<BareToken(Role1)>>)}

NextTicket ==
    \/ /\ chans = {}
       /\ \/ SetupPanelRead(1, Guild, "main", LoggedPanel)
          \/ SetupPanelWrite(1)
          \/ \E r \in StaffRoles : SetupButtonRead(1, Guild, "main", 1, LabelOnly, r)
          \/ SetupButtonWrite(1)
    \/ GuildChannelDeleted(Log1)
    \/ \E h \in Handlers :
        \/ \E pid \in 1..MaxPanelId, i \in Positions : Activate(h, Requester, pid, i)
        \/ CreateCategoryRead(h)
        \/ CreateChannel(h, TRUE)
        \/ CreateRename(h, TRUE)
        \/ CreateThread(h, TRUE)
        \/ CreateMembers(h, TRUE)
        \/ CreateSend(h, TRUE)
        \/ CreateInsert(h)
        \/ \E u \in Closers, c \in 1..MaxChannelId : CloseLookup(h, u, c)
        \/ CloseRoles(h)
        \/ CloseLog(h)
        \/ CloseUpdate(h)
        \/ \E ok \in BOOLEAN : CloseTranscript(h, ok)
        \/ \E ok \in BOOLEAN : CloseArchive(h, ok)
        \/ CloseDelete(h)

SpecTicket == Init /\ [][NextTicket]_vars

\* one handler at a time, role lists of well-formed and malformed tokens
BadToken == [wrapped |-> FALSE, num |-> FALSE, val |-> NoId]            \* "abc"
BadMention == [wrapped |-> TRUE, num |-> FALSE, val |-> NoId]           \* "<@&abc>"
RoleTokens == {BareToken(Role1), MentionToken(Role2), BadToken, BadMention}
RoleStrings ==
    {RolesString(s) : s \in {<<t>> : t \in RoleTokens} \cup
                             {q \in RoleTokens \X RoleTokens : q[1] /= q[2]}}

NextRoles ==
    \/ SetupPanelRead(1, Guild, "main", PlainPanel)
    \/ SetupPanelWrite(1)
    \/ \E r \in RoleStrings : SetupButtonRead(1, Guild, "main", 1, NoButtonArgs, r)
    \/ SetupButtonWrite(1)

SpecRoles == Init /\ [][NextRoles]_vars

\* a panel is posted and posted again, by one handler at a time
HereChannels == {TextA, TextB}

NextHere ==
    \/ SetupPanelRead(1, Guild, "main", PlainPanel)
    \/ SetupPanelWrite(1)
    \/ GuildChannelDeleted(TextB)
    \/ \E arg \in HereChannels \cup {NoId}, inv \in HereChannels :
            /\ arg \notin gone
            /\ inv \notin gone
            /\ HereRead(1, Guild, "main", arg, inv)
    \/ \E ok \in BOOLEAN : HereDeleteOld(1, ok)
    \/ HereLoad(1)
    \/ \E ok \in BOOLEAN : HereSend(1, ok)
    \/ HereWrite(1)

SpecHere == Init /\ [][NextHere]_vars

\* a panel with or without category is posted, given a button, deleted, while
\* members use the controls of the posted messages
TitledPanel == [NoPanelArgs EXCEPT !.panel_title = "T"]

NextStale ==
    \/ \E pa \in {PlainPanel, TitledPanel} : SetupPanelRead(1, Guild, "main", pa)
    \/ SetupButtonRead(1, Guild, "main", 1, LabelOnly, NoRolesArg)
    \/ HereRead(1, Guild, "main", NoId, TextA)
    \/ HereDeleteOld(1, TRUE)
    \/ HereLoad(1)
    \/ HereSend(1, TRUE)
    \/ \E h \in Handlers :
        \/ SetupPanelWrite(h)
        \/ SetupButtonWrite(h)
        \/ HereWrite(h)
        \/ DeletePanelRead(h, Guild, "main")
        \/ DeletePanelWrite(h)
        \/ \E mid \in 1..MaxMessageId, i \in Positions : ActivatePosted(h, Requester, mid, i)
        \/ CreateCategoryRead(h)
        \/ CreateChannel(h, TRUE)
        \/ CreateRename(h, TRUE)
        \/ CreateThread(h, TRUE)
        \/ CreateMembers(h, TRUE)
        \/ CreateSend(h, TRUE)
        \/ CreateInsert(h)

SpecStale == Init /\ [][NextStale]_vars

\* tickets are opened while the button's roles are rebound, a role or the
\* category is deleted, and the creation of the channel or of the thread fails
BoundRoles == {EmptyString, RolesString(<<BareToken(Role1)>>),
               RolesString(<<BareToken(Role1), MentionToken(Role2)>>)}

NextCreate ==
    \/ GuildRoleDeleted(Role2)
    \/ GuildChannelDeleted(Cat1)
    \/ \E h \in Handlers :
        \/ SetupPanelRead(h, Guild, "main", PlainPanel)
        \/ SetupPanelWrite(h)
        \/ \E r \in BoundRoles : SetupButtonRead(h, Guild, "main", 1, NoButtonArgs, r)
        \/ SetupButtonWrite(h)
        \/ \E i \in Positions : Activate(h, Requester, 1, i)
        \/ CreateCategoryRead(h)
        \/ \E ok \in BOOLEAN : CreateChannel(h, ok)
        \/ CreateRename(h, TRUE)
        \/ \E ok \in BOOLEAN : CreateThread(h, ok)
        \/ CreateMembers(h, TRUE)
        \/ CreateSend(h, TRUE)
        \/ CreateInsert(h)

SpecCreate == Init /\ [][NextCreate]_vars

\* buttons are set up and deleted at every position and the panel is posted, by
\* one handler at a time
NextView ==
    \/ SetupPanelRead(1, Guild, "main", PlainPanel)
    \/ SetupPanelWrite(1)
    \/ \E pos \in Positions : SetupButtonRead(1, Guild, "main", pos, LabelOnly, NoRolesArg)
    \/ SetupButtonWrite(1)
    \/ \E pos \in Positions : DeleteButtonRead(1, Guild, "main", pos)
    \/ DeleteButtonWrite(1)
    \/ HereRead(1, Guild, "main", NoId, TextA)
    \/ HereDeleteOld(1, TRUE)
    \/ HereLoad(1)
    \/ HereSend(1, TRUE)
    \/ HereWrite(1)

SpecView == Init /\ [][NextView]_vars

\* tickets are opened on a platform whose next channel snowflake is any of a
\* sample of identifiers around the 10-bit and 20-bit boundaries
SnowflakeSample ==
    (0..63)
    \cup {2^10 * k + j : k \in {1, 2, 2^10 - 1, 2^10, 2^10 + 1, 2^20 + 5},
                         j \in {0, 1, 2^10 - 1}}
    \cup {104729 * k : k \in 1..200}
    \cup {2^30 + 12345, 2^30 + (2^30 - 3)}

InitName ==
    /\ panels = {} /\ buttons = {} /\ bindings = {} /\ tickets = {}
    /\ nextPanelId = 1 /\ nextButtonId = 1
    /\ chans = {} /\ transcripts = {} /\ gone = {}
    /\ nextChannelId \in SnowflakeSample
    /\ clock = 1
    /\ msgs = {} /\ nextMessageId = 1
    /\ hs = [h \in Handlers |-> Idle]

NextName ==
    \/ SetupPanelRead(1, Guild, "main", PlainPanel)
    \/ SetupPanelWrite(1)
    \/ \E i \in Positions : Activate(1, Requester, 1, i)
    \/ CreateChannel(1, TRUE)
    \/ \E ok \in BOOLEAN : CreateRename(1, ok)
    \/ CreateThread(1, TRUE)
    \/ CreateMembers(1, TRUE)
    \/ CreateSend(1, TRUE)
    \/ CreateInsert(1)

SpecName == InitName /\ [][NextName]_vars

\* two guilds that each have a panel of the same name configure it, give it
\* buttons at the same positions and delete them, one handler at a time
Guilds == {Guild, Guild2}
PanelOf(id, g) ==
    [id |-> id, guild_id |-> g, panel_name |-> "main", panel_title |-> NULL,
     panel_description |-> NULL, channel_id |-> NoId, message_id |-> NoId,
     category_id |-> Cat1, log_channel_id |-> NoId]

InitGuilds ==
    /\ panels = {PanelOf(1, Guild), PanelOf(2, Guild2)}
    /\ buttons = {} /\ bindings = {} /\ tickets = {}
    /\ nextPanelId = 3 /\ nextButtonId = 1
    /\ chans = {} /\ transcripts = {} /\ gone = {}
    /\ nextChannelId = 1
    /\ clock = 1
    /\ msgs = {} /\ nextMessageId = 1
    /\ hs = [h \in Handlers |-> Idle]

NextGuilds ==
    \/ \E g \in Guilds : SetupPanelRead(1, g, "main", TitledPanel)
    \/ SetupPanelWrite(1)
    \/ \E g \in Guilds : DeletePanelRead(1, g, "main")
    \/ DeletePanelWrite(1)
    \/ \E g \in Guilds, r \in StaffRoles : SetupButtonRead(1, g, "main", 1, LabelOnly, r)
    \/ \E g \in Guilds : SetupButtonRead(1, g, "main", 2, LabelOnly, NoRolesArg)
    \/ SetupButtonWrite(1)
    \/ \E g \in Guilds, pos \in 1..2 : DeleteButtonRead(1, g, "main", pos)
    \/ DeleteButtonWrite(1)

SpecGuilds == InitGuilds /\ [][NextGuilds]_vars

\* one handler at a time, role lists of well-formed tokens only, some naming a
\* role twice
NamedRoles ==
    {EmptyString,
     RolesString(<<BareToken(Role1)>>),
     RolesString(<<MentionToken(Role2)>>),
     RolesString(<<BareToken(Role1), MentionToken(Role2)>>),
     RolesString(<<BareToken(Role1), BareToken(Role1)>>),
     RolesString(<<MentionToken(Role2), BareToken(Role1), BareToken(Role2)>>)}

NextBind ==
    \/ SetupPanelRead(1, Guild, "main", PlainPanel)
    \/ SetupPanelWrite(1)
    \/ \E pos \in 1..2, r \in NamedRoles : SetupButtonRead(1, Guild, "main", pos, NoButtonArgs, r)
    \/ SetupButtonWrite(1)

SpecBind == Init /\ [][NextBind]_vars

\* a guild with two panels gives them buttons and deletes them, one handler at
\* a time
PanelNames == {"main", "other"}

InitPanels ==
    /\ panels = {PanelOf(1, Guild), [PanelOf(2, Guild) EXCEPT !.panel_name = "other"]}
    /\ buttons = {InsertedButton(1, 1, 1, LabelOnly)}
    /\ bindings = {} /\ tickets = {}
    /\ nextPanelId = 3 /\ nextButtonId = 2
    /\ chans = {} /\ transcripts = {} /\ gone = {}
    /\ nextChannelId = 1
    /\ clock = 1
    /\ msgs = {} /\ nextMessageId = 1
    /\ hs = [h \in Handlers |-> Idle]

NextIds ==
    \/ \E n \in PanelNames, pos \in 1..2 : SetupButtonRead(1, Guild, n, pos, LabelOnly, NoRolesArg)
    \/ SetupButtonWrite(1)
    \/ \E n \in PanelNames, pos \in 1..2 : DeleteButtonRead(1, Guild, n, pos)
    \/ DeleteButtonWrite(1)

SpecIds == InitPanels /\ [][NextIds]_vars

\* two setup_panel handlers on one panel interleave, each supplying one field
OneFieldPanels ==
    {TitledPanel, PlainPanel, [NoPanelArgs EXCEPT !.log_channel = Log1],
     [NoPanelArgs EXCEPT !.panel_description = "D"]}

NextRace ==
    \E h \in Handlers :
        \/ \E pa \in OneFieldPanels : SetupPanelRead(h, Guild, "main", pa)
        \/ SetupPanelWrite(h)

SpecRace == Init /\ [][NextRace]_vars

\* a panel is posted by handlers that interleave; every deletion of an earlier
\* message succeeds
NextRepost ==
    \/ SetupPanelRead(1, Guild, "main", PlainPanel)
    \/ \E h \in Handlers :
        \/ SetupPanelWrite(h)
        \/ HereRead(h, Guild, "main", NoId, TextA)
        \/ HereDeleteOld(h, TRUE)
        \/ HereLoad(h)
        \/ HereSend(h, TRUE)
        \/ HereWrite(h)

SpecRepost == Init /\ [][NextRepost]_vars

\* ================================================================ claims

\* The ticket row of channel c, and the panel the channel was opened from.
TicketOf(c) == CHOOSE t \in tickets : t.channel_id = c
OriginPanels(c) == {p \in panels : p.id = Chan(c).panel}

\* Handler h is a close request that got past the UPDATE of closed_at.
PastUpdate(h) ==
    /\ hs[h].op = "close"
    /\ \/ hs[h].pc \in {"cl_transcript", "cl_archive", "cl_delete"}
       \/ hs[h].pc = "done" /\ hs[h].res \in {"closed", "error"}

\* C1 (as stated), for close requests that ran to their end: when the panel the
\* ticket was opened from has a log channel that is configured and resolvable,
\* the ticket is marked closed, a transcript of the channel has been sent to
\* that log channel, and the channel no longer exists.  This covers tickets
\* opened from the default button.
C1_CloseSendsTranscript ==
    \A h \in Handlers :
        (hs[h].op = "close" /\ hs[h].pc = "done" /\ hs[h].res = "closed") =>
            \A p \in OriginPanels(hs[h].chan) :
                Resolvable(p.log_channel_id) =>
                    /\ TicketOf(hs[h].chan).closed_at /= NoId
                    /\ [log |-> p.log_channel_id, chan |-> hs[h].chan] \in transcripts
                    /\ ~Live(hs[h].chan)

\* C2: the step that checks the permission of a close request made by a user
\* who is no administrator and holds none of the roles bound to the ticket's
\* button (for a ticket without button reference: by any non-administrator)
\* ends the request as denied and changes neither the ticket rows, nor the
\* channels, nor the transcripts.
C2_UnpermittedCloseRejected ==
    [][\A h \in Handlers :
        ( /\ hs[h].pc = "cl_roles"
          /\ hs'[h] /= hs[h]
          /\ ~hs[h].user.admin
          /\ hs[h].user.roles \cap RolesOf(TicketOf(hs[h].chan).button_id) = {} )
        => /\ hs'[h].pc = "done"
           /\ hs'[h].res = "denied"
           /\ tickets' = tickets
           /\ chans' = chans
           /\ transcripts' = transcripts]_vars

C2_Witness ==
    \E h \in Handlers :
        /\ hs[h].op = "close" /\ hs[h].pc = "done" /\ hs[h].res = "denied"
        /\ TicketOf(hs[h].chan).button_id = NoId
        /\ TicketOf(hs[h].chan).closed_at = NoId
        /\ Live(hs[h].chan)

\* C3: a close request by an administrator is never denied, whatever roles the
\* administrator holds and whatever roles are bound to the button, and once it
\* is past the permission check and the update the ticket is marked closed.
C3_AdminCloseMarksClosed ==
    \A h \in Handlers :
        (hs[h].op = "close" /\ hs[h].user.admin) =>
            /\ hs[h].res /= "denied"
            /\ PastUpdate(h) => TicketOf(hs[h].chan).closed_at /= NoId

C3_Witness ==
    \E h \in Handlers :
        /\ hs[h].op = "close" /\ hs[h].pc = "done" /\ hs[h].res = "closed"
        /\ hs[h].user.admin
        /\ RolesOf(TicketOf(hs[h].chan).button_id) /= {}
        /\ hs[h].user.roles \cap RolesOf(TicketOf(hs[h].chan).button_id) = {}
        /\ TicketOf(hs[h].chan).closed_at /= NoId

\* C4 (as stated): closed_at of a ticket is written once: after it has become
\* non-null the row never changes again, also when a second close request
\* arrives while the first one waits to delete the channel.
C4_ClosedAtWrittenOnce ==
    [][\A t \in tickets : t.closed_at /= NoId => t \in tickets']_vars

\* C5 (as stated): a close request that passed the permission check deletes the
\* ticket channel whether or not the transcript delivery and the archiving of
\* the threads succeeded: no such request has ended with the channel still
\* there.
C5_ChannelDeletedAfterClose ==
    \A h \in Handlers :
        (PastUpdate(h) /\ hs[h].pc = "done") => ~Live(hs[h].chan)

\* The step in which handler h runs the write transaction of setup_button.
SetupButtonWrites(h) ==
    /\ hs[h].pc = "sb_body"
    /\ hs'[h].pc = "done"
    /\ hs'[h].res \in {"success", "error"}

\* C6 (as stated): setup_button on an existing button leaves every field whose
\* argument is omitted at its stored value, for each of label, ticket title,
\* ticket message, emoji, visual style and color.
C6_OmittedFieldsKept ==
    [][\A h \in Handlers :
        (SetupButtonWrites(h) /\ hs'[h].res = "success") =>
            \A b \in ButtonRows(hs[h].pid, hs[h].pos) :
                \E b2 \in buttons' :
                    /\ b2.id = b.id
                    /\ \A f \in ButtonFields : hs[h].ba[f] = NULL => b2[f] = b[f]]_vars

\* C7: setup_button with support_roles = "" leaves the button without any role
\* binding, and setup_button with support_roles omitted leaves the table of role
\* bindings exactly as it was.
C7_RolesClearedOrKept ==
    [][\A h \in Handlers :
        (SetupButtonWrites(h) /\ hs'[h].res = "success") =>
            /\ hs[h].roles = EmptyString =>
                \A b \in buttons' :
                    (b.panel_id = hs[h].pid /\ b.button_position = hs[h].pos) =>
                        {x \in bindings' : x.button_id = b.id} = {}
            /\ hs[h].roles = NoRolesArg => bindings' = bindings]_vars

\* C7 witness: a call with support_roles = "" has run on a button that had
\* bindings and left it with none.
C7_Witness ==
    \E h \in Handlers :
        /\ hs[h].op = "setup_button" /\ hs[h].pc = "done" /\ hs[h].res = "success"
        /\ hs[h].before.existed /\ hs[h].before.bound
        /\ hs[h].roles = EmptyString
        /\ buttons /= {}
        /\ bindings = {}

\* C9 (as stated): a setup_button call at a (panel, position) that already holds
\* a button is rejected and stores nothing.
C9_OccupiedPositionRejected ==
    [][\A h \in Handlers :
        (SetupButtonWrites(h) /\ ButtonRows(hs[h].pid, hs[h].pos) /= {}) =>
            hs'[h].res = "error" /\ buttons' = buttons]_vars

\* C9 (amended): a setup_button call at a (panel, position) that already holds a
\* button is not rejected; it updates that row in place, so the position keeps
\* one row with the same id and the table gains no row.  A call at a free
\* position adds exactly one row there.  Either call fails only when its role
\* list raises.
C9_OccupiedPositionUpdated ==
    [][\A h \in Handlers :
        SetupButtonWrites(h) =>
            LET old == ButtonRows(hs[h].pid, hs[h].pos)
                new == {b \in buttons' :
                            b.panel_id = hs[h].pid /\ b.button_position = hs[h].pos}
                parsed == ParseRoles(hs[h].roles.tokens)
                raises == hs[h].roles.given /\ (~parsed.ok \/ ~NoDuplicate(parsed.ids))
            IN  /\ hs'[h].res = "success" <=> ~raises
                /\ hs'[h].res = "error" => buttons' = buttons
                /\ (hs'[h].res = "success" /\ old /= {}) =>
                        /\ Cardinality(new) = 1
                        /\ {b.id : b \in new} = {b.id : b \in old}
                        /\ Cardinality(buttons') = Cardinality(buttons)
                /\ (hs'[h].res = "success" /\ old = {}) =>
                        /\ Cardinality(new) = 1
                        /\ Cardinality(buttons') = Cardinality(buttons) + 1]_vars

\* C9 witness: a panel holds buttons at positions 1, 2 and 3, and the last call
\* ran on a position that already held a button.
C9_Witness ==
    \E p \in panels :
        /\ \A pos \in Positions : ButtonRows(p.id, pos) /= {}
        /\ \E h \in Handlers :
                /\ hs[h].op = "setup_button" /\ hs[h].pc = "done" /\ hs[h].res = "success"
                /\ hs[h].before.existed

\* C10: each panel has at most three buttons, every button position is in
\* {1,2,3}, and no two buttons of the same panel share a position.
C10_ButtonPositionsUnique ==
    /\ \A b \in buttons : b.button_position \in {1, 2, 3}
    /\ \A b1, b2 \in buttons :
            (b1.panel_id = b2.panel_id /\ b1.button_position = b2.button_position) => b1 = b2
    /\ \A b \in buttons : Cardinality({x \in buttons : x.panel_id = b.panel_id}) <= 3

\* C10 witness: a panel holds three buttons while two handlers are in flight,
\* one of them a setup_button that has read the panel and not yet written.
C10_Witness ==
    \E p \in panels :
        /\ Cardinality({b \in buttons : b.panel_id = p.id}) = 3
        /\ \E h, k \in Handlers :
                /\ h /= k
                /\ hs[h].pc = "sb_body" /\ hs[h].pid = p.id
                /\ hs[k].pc \in {"db_write", "dp_write", "sp_write", "sb_body"}

\* C8: setup_panel invoked with category, log channel, title and description all
\* absent changes no stored row and ends there, whether or not the panel exists;
\* when it exists, each value it reports is the stored one (a text that is unset
\* or empty shown as 'Default', an id that is unset shown as 'Not Set').
C8_DisplayOnly ==
    [][\A h \in Handlers :
        (hs'[h] /= hs[h] /\ hs'[h].op = "setup_panel" /\ hs'[h].pa = NoPanelArgs) =>
            /\ panels' = panels /\ buttons' = buttons /\ bindings' = bindings
            /\ tickets' = tickets
            /\ hs'[h].pc = "done"
            /\ PanelRows(Guild, "main") = {} => hs'[h].res = "failure"
            /\ \A p \in PanelRows(Guild, "main") :
                /\ hs'[h].res = "client"
                /\ hs'[h].out.title =
                        (IF p.panel_title \in {NULL, ""} THEN "Default" ELSE p.panel_title)
                /\ hs'[h].out.desc =
                        (IF p.panel_description \in {NULL, ""} THEN "Default"
                         ELSE p.panel_description)
                /\ hs'[h].out.cat.id = p.category_id
                /\ hs'[h].out.cat.text = (IF p.category_id = NoId THEN "Not Set" ELSE "<#id>")
                /\ hs'[h].out.log.id = p.log_channel_id
                /\ hs'[h].out.log.text =
                        (IF p.log_channel_id = NoId THEN "Not Set" ELSE "<#id>")]_vars

\* C8 witness: the all-absent call has reported a panel whose title and category
\* are set and whose log channel is not.
C8_Witness ==
    \E h \in Handlers, p \in panels :
        /\ hs[h].op = "setup_panel" /\ hs[h].pc = "done" /\ hs[h].res = "client"
        /\ hs[h].pa = NoPanelArgs
        /\ p.panel_title = "T" /\ hs[h].out.title = "T"
        /\ p.category_id = Cat1 /\ hs[h].out.cat.id = Cat1
        /\ p.log_channel_id = NoId /\ hs[h].out.log.text = "Not Set"

\* C11 (as stated): a setup_button call whose support_roles list holds malformed
\* tokens still succeeds and binds exactly the well-formed tokens of the list.
C11_MalformedTokensDropped ==
    [][\A h \in Handlers :
        (SetupButtonWrites(h) /\ hs[h].roles.given) =>
            /\ hs'[h].res = "success"
            /\ \A b \in buttons' :
                (b.panel_id = hs[h].pid /\ b.button_position = hs[h].pos) =>
                    {x.role_id : x \in {y \in bindings' : y.button_id = b.id}} =
                    {hs[h].roles.tokens[i].val :
                        i \in {k \in 1..Len(hs[h].roles.tokens) :
                                    hs[h].roles.tokens[k].num}}]_vars

\* C12 (as stated): ticket_here posts the panel message to the channel argument
\* when one is given and to the channel of the command otherwise, and stores that
\* channel and the new message as the panel's posted reference, on a first post
\* and when an earlier message of the panel exists.
C12_PostedToTarget ==
    [][\A h \in Handlers :
        (hs[h].pc = "th_write" /\ hs'[h].pc = "done") =>
            LET w == hs[h].here
                target == IF w.given /= NoId THEN w.given ELSE w.invoked
            IN  \A p \in panels' :
                    p.id = hs[h].pid =>
                        /\ p.channel_id = target
                        /\ p.message_id = w.message
                        /\ \E m \in msgs' : m.id = w.message /\ m.chan = target /\ m.live]_vars

\* C13 (as stated): no button row and no role-binding row of a deleted panel
\* remains: every button row references an existing panel.
C13_ButtonsHavePanel ==
    \A b \in buttons : \E p \in panels : p.id = b.panel_id

\* C14 (as stated): no role binding of a deleted button remains: every
\* role-binding row references an existing button.
C14_BindingsHaveButton ==
    \A x \in bindings : \E b \in buttons : b.id = x.button_id

\* C15: the step of a button activation that looks up the category of a panel
\* that is missing or has no category ends the activation with the
\* not-configured failure and creates no channel, no thread and no ticket row.
C15_NotConfiguredNoEffect ==
    [][\A h \in Handlers :
        ( /\ hs'[h] /= hs[h]
          /\ hs'[h].op = "create"
          /\ hs[h].pc \in {"idle", "done", "tc_category"}
          /\ hs'[h].pc /= "tc_category"
          /\ CategoryOf(hs'[h].ctl.panel_id) = NoId )
        => /\ hs'[h].pc = "done"
           /\ hs'[h].res = "failure"
           /\ hs'[h].out.kind = "not_configured"
           /\ chans' = chans
           /\ tickets' = tickets]_vars

\* C15 witness: the control of a button of a posted panel was used after the
\* panel had been deleted, and the activation ended with the failure.
C15_Witness ==
    \E h \in Handlers :
        /\ hs[h].op = "create" /\ hs[h].pc = "done" /\ hs[h].res = "failure"
        /\ hs[h].ctl.button_id /= NoId
        /\ \A p \in panels : p.id /= hs[h].ctl.panel_id
        /\ chans = {} /\ tickets = {}

\* C16: when the creation of the ticket channel or of the staff thread fails,
\* the activation ends there and writes no ticket row; and every ticket row is
\* written for a channel that exists at the time of the write.
C16_FailedCreationWritesNoRow ==
    [][/\ \A h \in Handlers :
            ( /\ hs[h].pc \in {"tc_channel", "tc_thread"}
              /\ hs'[h] /= hs[h]
              /\ hs'[h].pc \notin {"tc_rename", "tc_members"} )
            => /\ hs'[h].pc = "done"
               /\ hs'[h].res = "error"
               /\ tickets' = tickets
       /\ \A t \in tickets' \ tickets : Live(t.channel_id)]_vars

\* C16 witness: an activation ended in an error after its channel had been
\* created and before a thread existed; the channel has no ticket row.
C16_Witness ==
    \E h \in Handlers :
        /\ hs[h].op = "create" /\ hs[h].pc = "done" /\ hs[h].res = "error"
        /\ hs[h].chan /= NoId
        /\ Chan(hs[h].chan).thread = "none"
        /\ TicketRows(hs[h].chan) = {}

\* C17: the last step of a successful button activation by a member adds exactly
\* one ticket row: its key is the channel the activation created, its requester
\* is the member, its closed_at is null, and its button reference is the button
\* id of the activated control, which is none for the default control.
C17_OneRowPerActivation ==
    [][\A h \in Handlers :
        (hs[h].pc = "tc_insert" /\ hs'[h] /= hs[h]) =>
            /\ hs'[h].pc = "done" /\ hs'[h].res = "success"
            /\ TicketRows(hs[h].chan) = {}
            /\ \E t \in tickets' :
                /\ tickets' = tickets \cup {t}
                /\ t.channel_id = hs[h].chan
                /\ Live(t.channel_id)
                /\ t.user_id = hs[h].user.id
                /\ t.closed_at = NoId
                /\ t.button_id = hs[h].ctl.button_id
                /\ hs[h].ctl.position = 0 => t.button_id = NoId]_vars

\* C17 witness: an activation of the default control has succeeded and its
\* channel has a ticket row without button reference.
C17_Witness ==
    \E h \in Handlers :
        /\ hs[h].op = "create" /\ hs[h].pc = "done" /\ hs[h].res = "success"
        /\ hs[h].ctl.position = 0
        /\ \E t \in tickets : t.channel_id = hs[h].chan /\ t.button_id = NoId
                                /\ t.user_id = hs[h].user.id

\* C18: the callback reads the roles bound to the activated button when it is
\* activated, and the channel is created with read denied to the general
\* membership and read and send allowed to the requester, the bot and those of
\* the roles read that resolve, and to nobody else.
C18_ChannelOverwrites ==
    [][\A h \in Handlers :
        /\ (hs'[h] /= hs[h] /\ hs'[h].op = "create" /\ hs[h].pc \in {"idle", "done"}) =>
                hs'[h].sroles = (IF hs'[h].ctl.button_id = NoId THEN {}
                                 ELSE RolesOf(hs'[h].ctl.button_id))
        /\ (hs[h].pc = "tc_channel" /\ hs'[h].pc = "tc_rename") =>
                \E c \in chans' :
                    /\ chans' = chans \cup {c}
                    /\ c \notin chans
                    /\ c.id = hs'[h].chan
                    /\ c.allow.deny = {"everyone"}
                    /\ c.allow.members = {hs[h].user.id, Me}
                    /\ c.allow.roles = {r \in hs[h].sroles : r \notin gone}]_vars

\* C18 witness: a channel was created for a button bound to two roles of which
\* one had been deleted; it allows the other one only.
C18_Witness ==
    \E h \in Handlers :
        /\ hs[h].op = "create" /\ hs[h].pc = "tc_rename"
        /\ hs[h].sroles = {Role1, Role2}
        /\ Role2 \in gone
        /\ Chan(hs[h].chan).allow.roles = {Role1}

\* C19: the view that load_buttons builds for a panel holds one control per
\* button row of the panel, in ascending order of position, and exactly the
\* default control (position 0, no button id) when the panel has no button; it
\* holds between one and three controls; a second load_buttons on the same view
\* adds nothing.  ticket_here sends the view so built.
C19_ViewControls ==
    [][/\ \A pid \in 1..MaxPanelId :
            LET v == load_buttons(NewView(pid))
                rows == {b \in buttons : b.panel_id = pid}
                n == Len(v.items)
            IN  /\ n \in 1..3
                /\ rows = {} => v.items = <<[button_id |-> NoId, position |-> 0,
                                            panel_id |-> pid]>>
                /\ rows /= {} =>
                    /\ n = Cardinality(rows)
                    /\ \A b \in rows : \E i \in 1..n :
                            /\ v.items[i].button_id = b.id
                            /\ v.items[i].position = b.button_position
                            /\ v.items[i].panel_id = pid
                    /\ \A i, j \in 1..n : i < j => v.items[i].position < v.items[j].position
                /\ load_buttons(v) = v
       /\ \A h \in Handlers :
            (hs[h].pc = "th_load" /\ hs'[h] /= hs[h]) =>
                hs'[h].here.view = load_buttons(NewView(hs[h].pid)).items]_vars

\* C19 witness: ticket_here has built a view of three controls for a panel with
\* buttons at positions 1, 2 and 3.
C19_Witness ==
    \E h \in Handlers :
        /\ hs[h].pc = "th_send"
        /\ Len(hs[h].here.view) = 3
        /\ \A i \in 1..3 : hs[h].here.view[i].position = i
                            /\ hs[h].here.view[i].button_id /= NoId

\* XOR of two numbers below 2^10, digit by digit, in arithmetic.
RECURSIVE XorOfTenBits(_, _, _)
XorOfTenBits(a, b, i) ==
    IF i > 9 THEN 0
    ELSE 2^i * (((a \div 2^i) + (b \div 2^i)) % 2) + XorOfTenBits(a, b, i + 1)

\* C20: for the identifier c of every channel created, get_ticket_id(c) is the
\* XOR of the low ten bits of c (c mod 1024) with the next ten bits
\* ((c div 1024) mod 1024), it lies in 0..1023, and the number the channel was
\* named with is the one a later call gives.
C20_TicketIdInRange ==
    \A x \in chans :
        /\ get_ticket_id(x.id) =
                XorOfTenBits(x.id % 1024, (x.id \div 1024) % 1024, 0)
        /\ get_ticket_id(x.id) \in 0..1023
        /\ x.named => x.number = get_ticket_id(x.id)

\* C20 witness: a channel whose identifier has bits above the twentieth was
\* named, with a number that is neither its low ten bits nor zero.
C20_Witness ==
    \E x \in chans :
        /\ x.named
        /\ x.id >= 2^20
        /\ x.number /= x.id % 1024
        /\ x.number /= 0

\* C21: a setup_button that names a panel its guild does not have, a
\* delete_button that names a panel and position at which its guild has no
\* button, and a delete_panel that names a panel its guild does not have, each
\* end at once with a failure reply and without writing to any table: the only
\* invocations that get further are those whose target exists.
C21_MissingTargetFails ==
    [][\A h \in Handlers :
        (Vacant(h) /\ hs'[h] /= hs[h]) =>
            LET f == hs'[h]
                failed == f.pc = "done" /\ f.res = "failure" /\ UNCHANGED db
                hasPanel == \E p \in panels : p.guild_id = f.guild /\ p.panel_name = f.name
                hasButton ==
                    \E p \in panels, b \in buttons :
                        /\ p.guild_id = f.guild /\ p.panel_name = f.name
                        /\ b.panel_id = p.id /\ b.button_position = f.pos
            IN  /\ f.op = "setup_button" => failed \/ hasPanel
                /\ f.op = "delete_panel" => failed \/ hasPanel
                /\ f.op = "delete_button" => failed \/ hasButton]_vars

\* delete_button was refused in a guild whose panel has no button at a position
\* at which the panel of the same name of the other guild has one
C21_Witness ==
    /\ hs[1].op = "delete_button" /\ hs[1].res = "failure"
    /\ \E g \in Guilds, pos \in Positions :
        /\ PanelRows(g, "main") /= {}
        /\ ButtonsOfNamedPanel(g, "main", pos) = {}
        /\ \E g2 \in Guilds \ {g} : ButtonsOfNamedPanel(g2, "main", pos) /= {}

\* C22: a step of setup_panel, delete_panel, setup_button or delete_button
\* invoked in guild g inserts, updates or deletes only panel rows of g, button
\* rows of panels of g and binding rows of buttons of panels of g; every row of
\* another guild is the same after the step as before.
ConfigOps == {"setup_panel", "delete_panel", "setup_button", "delete_button"}
Changed(before, after) == (before \ after) \cup (after \ before)

C22_OnlyOwnGuildRows ==
    [][\A h \in Handlers :
        (hs'[h] /= hs[h] /\ (hs[h].op \in ConfigOps \/ hs'[h].op \in ConfigOps)) =>
            IF Vacant(h) THEN UNCHANGED db
            ELSE LET g == hs[h].guild
                     own == {p.id : p \in {q \in panels : q.guild_id = g}}
                     ownButtons == {b.id : b \in {x \in buttons \cup buttons' :
                                                    x.panel_id \in own}}
                 IN  /\ \A p \in Changed(panels, panels') : p.guild_id = g
                     /\ \A b \in Changed(buttons, buttons') : b.panel_id \in own
                     /\ \A x \in Changed(bindings, bindings') : x.button_id \in ownButtons
                     /\ UNCHANGED tickets]_vars

\* one guild retitled its panel and bound a role to its button at position 1;
\* the panel of the same name of the other guild, with a button at position 1
\* too, has no title and no binding
C22_Witness ==
    /\ hs[1].pc = "done" /\ hs[1].res = "success"
    /\ \E p \in PanelRows(Guild, "main"), q \in PanelRows(Guild2, "main") :
        /\ p.panel_title = "T" /\ q.panel_title = NULL
        /\ \E b \in ButtonRows(p.id, 1), c \in ButtonRows(q.id, 1) :
            RolesOf(b.id) /= {} /\ RolesOf(c.id) = {}

\* C23 (as stated): a setup_button call whose support_roles list holds only
\* well-formed tokens succeeds and leaves the button bound to exactly the roles
\* the list names, whether or not the list names a role more than once, and to
\* none of the roles it was bound to before unless the list names them.
C23_BindingsAreNamedRoles ==
    [][\A h \in Handlers :
        (/\ SetupButtonWrites(h)
         /\ hs[h].roles.given
         /\ \A i \in 1..Len(hs[h].roles.tokens) : hs[h].roles.tokens[i].num) =>
            /\ hs'[h].res = "success"
            /\ \A b \in buttons' :
                (b.panel_id = hs[h].pid /\ b.button_position = hs[h].pos) =>
                    {x.role_id : x \in {y \in bindings' : y.button_id = b.id}} =
                    {hs[h].roles.tokens[i].val : i \in 1..Len(hs[h].roles.tokens)}]_vars

\* C24 (as stated): the controls of the views of two different panels never
\* carry the same custom_id, the default controls of two panels without buttons
\* included.
C24_ControlIdsDistinct ==
    \A v, w \in PanelViews :
        v.panel_id /= w.panel_id => ControlIds(v) \cap ControlIds(w) = {}

\* C25 (as stated): once two setup_panel invocations on one panel that supplied
\* different fields have both succeeded, the stored panel carries every value
\* either of them supplied, however their reads and writes were interleaved.
Supplied(pa) ==
    {f \in {"category", "log_channel"} : pa[f] /= NoId} \cup
    {f \in {"panel_title", "panel_description"} : pa[f] /= NULL}
Stored(p, f) ==
    CASE f = "category" -> p.category_id
      [] f = "log_channel" -> p.log_channel_id
      [] f = "panel_title" -> p.panel_title
      [] f = "panel_description" -> p.panel_description

C25_DisjointFieldsBothStored ==
    \A a, b \in Handlers :
        (/\ a /= b
         /\ \A h \in {a, b} :
                hs[h].pc = "done" /\ hs[h].op = "setup_panel" /\ hs[h].res = "success"
         /\ Supplied(hs[a].pa) \cap Supplied(hs[b].pa) = {}) =>
            \A p \in PanelRows(Guild, "main") :
                \A h \in {a, b} : \A f \in Supplied(hs[h].pa) : Stored(p, f) = hs[h].pa[f]

\* C26 (as stated): whenever no ticket_here handler is under way, each panel
\* has at most one posted message that still exists, and that message is the
\* one the panel row references.
PostedOf(pid) ==
    {m \in msgs : m.live /\ m.chan \notin gone /\ \E i \in 1..Len(m.view) : m.view[i].panel_id = pid}

C26_OnePostedMessage ==
    (\A h \in Handlers : hs[h].op = "ticket_here" => hs[h].pc = "done") =>
        \A p \in panels :
            /\ Cardinality(PostedOf(p.id)) <= 1
            /\ \A m \in PostedOf(p.id) : p.message_id = m.id /\ p.channel_id = m.chan

\* C27 (as stated): a ticket channel that exists and whose creation flow has
\* ended, by success or by failure, has a ticket row.
Creating(c) ==
    \E h \in Handlers : hs[h].op = "create" /\ hs[h].pc /= "done" /\ hs[h].chan = c

C27_CreatedChannelsRegistered ==
    \A x \in chans : (x.live /\ ~Creating(x.id)) => TicketRows(x.id) /= {}

====
